---- MODULE Spec2Model ----
(***************************************************************************)
(* Appointment storage layer of DavanteDental (js/storage.js): the id      *)
(* allocator generarProximoId and the record store obtenerCitas /          *)
(* guardarCita / eliminarCita over the two localStorage slots.             *)
(*                                                                         *)
(* Strings are modelled as sequences of one-character strings, so that     *)
(* String(n), padStart and the template literals are computed, not assumed.*)
(* An appointment object is a function from its field names to values.     *)
(***************************************************************************)
EXTENDS Integers, Sequences, FiniteSets, TLC

\* ---- bounds of the model ------------------------------------------------
MaxCitas == 3        \* longest persisted collection explored
MaxEmitidos == 3     \* most calls of generarProximoId explored
MaxReloj == 2        \* last clock instant explored; the year changes on reaching it
MaxEnvios == 2       \* most records created through the booking form
MaxLista == 3        \* longest list handed to ordenarCitas and separarCitasPorEstado
MaxAperturas == 2    \* most openings of the delete modal without a closing between them

\* ---- the clock ------------------------------------------------------------
AnioBase == 2025

\* new Date().getFullYear() at clock instant t
getFullYear(t) == AnioBase + (t \div MaxReloj)

\* ---- strings ---------------------------------------------------------------
Digito == <<"0", "1", "2", "3", "4", "5", "6", "7", "8", "9">>

RECURSIVE String(_)
\* String(n) of a non-negative integer: its decimal digits
String(n) == IF n < 10 THEN <<Digito[n + 1]>>
             ELSE String(n \div 10) \o <<Digito[(n % 10) + 1]>>

RECURSIVE padStart(_, _, _)
\* s.padStart(len, ch)
padStart(s, len, ch) == IF Len(s) >= len THEN s ELSE padStart(<<ch>> \o s, len, ch)

ValorDigito(c) == CHOOSE d \in 0..9 : Digito[d + 1] = c

RECURSIVE Numero(_)
\* the number a string of decimal digits denotes
Numero(s) == IF s = <<>> THEN 0
             ELSE 10 * Numero(SubSeq(s, 1, Len(s) - 1)) + ValorDigito(s[Len(s)])

\* s is a non-empty string of decimal digits
EsNumero(s) == s # <<>> /\ \A i \in 1..Len(s) : \E d \in 1..10 : Digito[d] = s[i]

\* the value undefined, which is no string: what reading a field that an
\* object lacks yields
Indefinido == <<"undefined">>

\* a value that is no string and that String() turns into the string s: a
\* number, an array holding the one string s
NoString(s) == <<"no string">> \o s

\* String(valor) of a string or of such a value
aString(valor) ==
    IF valor # <<>> /\ valor[1] = "no string" THEN SubSeq(valor, 2, Len(valor)) ELSE valor

\* c[f] of an object
campo(c, f) == IF f \in DOMAIN c THEN c[f] ELSE Indefinido

Mayusculas == <<"A", "B", "C", "D", "E", "F", "G", "H", "I", "J", "K", "L", "M",
                "N", "O", "P", "Q", "R", "S", "T", "U", "V", "W", "X", "Y", "Z">>
Minusculas == <<"a", "b", "c", "d", "e", "f", "g", "h", "i", "j", "k", "l", "m",
                "n", "o", "p", "q", "r", "s", "t", "u", "v", "w", "x", "y", "z">>

EsLetra(c) == \E i \in 1..26 : Mayusculas[i] = c

\* s.toUpperCase()
toUpperCase(s) ==
    [i \in 1..Len(s) |->
        IF \E k \in 1..26 : Minusculas[k] = s[i]
        THEN Mayusculas[CHOOSE k \in 1..26 : Minusculas[k] = s[i]]
        ELSE s[i]]

toLowerCase(s) ==
    [i \in 1..Len(s) |->
        IF \E k \in 1..26 : Mayusculas[k] = s[i]
        THEN Minusculas[CHOOSE k \in 1..26 : Mayusculas[k] = s[i]]
        ELSE s[i]]

\* s.includes(q)
includes(s, q) == \E i \in 1..(Len(s) - Len(q) + 1) : SubSeq(s, i, i + Len(q) - 1) = q

\* a value put into a string by +: undefined gives the text 'undefined'
texto(valor) ==
    IF valor = Indefinido THEN <<"u", "n", "d", "e", "f", "i", "n", "e", "d">> ELSE valor

RECURSIVE trim(_)
\* s.trim(), the white space being the blank
trim(s) == IF s = <<>> THEN s
           ELSE IF Head(s) = " " THEN trim(Tail(s))
           ELSE IF s[Len(s)] = " " THEN trim(SubSeq(s, 1, Len(s) - 1))
           ELSE s

\* ---- dates ---------------------------------------------------------------------
\* A date is written as the decimal digits of its day number and a time as the
\* digits of its minute of the day; any other text is no date and no time.
\* Instants are milliseconds, as Date.now() and getTime() give them.
NaN == -1

\* new Date(`${fecha}T${hora}`).getTime()
getTime(fecha, hora) ==
    IF EsNumero(fecha) /\ EsNumero(hora) /\ Numero(hora) < 1440
    THEN (Numero(fecha) * 1440 + Numero(hora)) * 60000
    ELSE NaN

\* mutant of validarFechaHoraCita: only the day is compared
validarFechaHoraCitaPorDia(fechaString, horaString, t) ==
    /\ fechaString # <<>> /\ horaString # <<>>
    /\ getTime(fechaString, horaString) # NaN
    /\ getTime(fechaString, horaString) >= t - (t % (1440 * 60000))

\* validarFechaHoraCita at clock instant t
validarFechaHoraCita(fechaString, horaString, t) ==
    /\ fechaString # <<>> /\ horaString # <<>>
    /\ getTime(fechaString, horaString) # NaN
    /\ getTime(fechaString, horaString) >= t

\* validarFechaNoFutura at clock instant t: hoy is t with the time of day zeroed
validarFechaNoFutura(fechaString, t) ==
    /\ fechaString # <<>>
    /\ getTime(fechaString, <<"0">>) # NaN
    /\ getTime(fechaString, <<"0">>) <= t - (t % (1440 * 60000))

\* ---- validarDNI -----------------------------------------------------------------
letras == <<"T", "R", "W", "A", "G", "M", "Y", "F", "P", "D", "X", "B",
            "N", "J", "Z", "S", "Q", "V", "H", "L", "C", "K", "E">>

validarDNI(dni) ==
    LET dniUpper == toUpperCase(dni)
        esDNI == /\ Len(dniUpper) = 9
                 /\ EsNumero(SubSeq(dniUpper, 1, 8))
                 /\ EsLetra(dniUpper[9])
        esNIE == /\ Len(dniUpper) = 9
                 /\ dniUpper[1] \in {"X", "Y", "Z"}
                 /\ EsNumero(SubSeq(dniUpper, 2, 8))
                 /\ EsLetra(dniUpper[9])
        numero == IF esDNI THEN SubSeq(dniUpper, 1, 8)
                  ELSE <<CHOOSE d \in {"0", "1", "2"} :
                            <<dniUpper[1], d>> \in {<<"X", "0">>, <<"Y", "1">>, <<"Z", "2">>}>>
                       \o SubSeq(dniUpper, 2, 8)
    IN  /\ dni # <<>>
        /\ esDNI \/ esNIE
        /\ dniUpper[9] = letras[(Numero(numero) % 23) + 1]

\* ---- the two storage slots ------------------------------------------------
\* localStorage[COUNTER_KEY]: absent, unparseable text ("garbage"), JSON of
\* another shape ("shape"), or the JSON of {anio, seq} ("valid").
SinContador == [kind |-> "absent", anio |-> 0, seq |-> 0]
ContadorValido(a, s) == [kind |-> "valid", anio |-> a, seq |-> s]

\* localStorage[STORAGE_KEY]: absent, the empty string ("empty"), unparseable
\* text ("garbage"), the JSON of an array, or JSON of another shape: of null, of
\* a number, of an object.
SinCitas == [kind |-> "absent", val |-> <<>>]
CitasJson(lista) == [kind |-> "array", val |-> lista]
OtroJson(tipo) == [kind |-> tipo, val |-> <<>>]

VARIABLES
    citasSlot,     \* localStorage[STORAGE_KEY]
    counterSlot,   \* localStorage[COUNTER_KEY]
    ahora,         \* the clock: Date.now()
    ultima,        \* the call that is returning: its operation, the branch
                   \* taken, its result; "none" between calls
    emitidos,      \* log of the results of generarProximoId
    vistos,        \* every {anio, seq} the counter slot has held
    form,          \* the page.  The booking page: form.dataset.editingId, the display of
                   \* the modal, of the confirmation and of the error message
    entrada,       \* a function of the pages applied on its own: its arguments
    salida         \* and what it returned

vars == <<citasSlot, counterSlot, ahora, ultima, emitidos, vistos, form, entrada, salida>>

\* the variables of the record store
almacen == <<citasSlot, counterSlot, ultima, emitidos, vistos>>

\* ---- generarProximoId -------------------------------------------------------
\* mutant of leerContador: the types of anio and seq are not looked at
leerContadorAceptaForma(slot, anioActual) ==
    IF slot.kind \in { "valid", "shape" } THEN [anio |-> slot.anio, seq |-> slot.seq]
    ELSE [anio |-> anioActual, seq |-> 0]

\* lines 15-28: the counter read from the slot, or the default
leerContador(slot, anioActual) ==
    IF slot.kind = "valid" THEN [anio |-> slot.anio, seq |-> slot.seq]
    ELSE [anio |-> anioActual, seq |-> 0]

\* mutant of avanzarContador: the increment is lost
avanzarContadorSinIncremento(contador, anioActual) ==
    IF contador.anio # anioActual THEN [anio |-> anioActual, seq |-> 1]
    ELSE [anio |-> contador.anio, seq |-> contador.seq]

\* mutant of avanzarContador: the sequence wraps around
avanzarContadorConVuelta(contador, anioActual) ==
    IF contador.anio # anioActual THEN [anio |-> anioActual, seq |-> 1]
    ELSE [anio |-> contador.anio, seq |-> (contador.seq % 2) + 1]

\* mutant of avanzarContador: the sequence goes on across the change of year
avanzarContadorSinReinicio(contador, anioActual) ==
    [anio |-> anioActual, seq |-> contador.seq + 1]

\* lines 30-34: reset on a new year, else increment
avanzarContador(contador, anioActual) ==
    IF contador.anio # anioActual THEN [anio |-> anioActual, seq |-> 1]
    ELSE [anio |-> contador.anio, seq |-> contador.seq + 1]

\* line 45: `${contador.anio}-${String(contador.seq).padStart(5, '0')}`
formatoId(contador) == String(contador.anio) \o <<"-">> \o padStart(String(contador.seq), 5, "0")

\* line 42: `TEMP-${Date.now()}`
idTemporal(t) == <<"T", "E", "M", "P", "-">> \o String(t)

\* mutant of generarProximoId: the counter is not persisted
generarProximoIdSinPersistir(slot, t, falla) ==
    LET anioActual == getFullYear(t)
        contador == avanzarContador(leerContador(slot, anioActual), anioActual)
    IN  IF falla THEN [id |-> idTemporal(t), slot |-> slot]
        ELSE [id |-> formatoId(contador), slot |-> slot]

\* mutant of generarProximoId: a failing counter write goes unnoticed
generarProximoIdSinRespaldo(slot, t, falla) ==
    LET anioActual == getFullYear(t)
        contador == avanzarContador(leerContador(slot, anioActual), anioActual)
    IN  [id |-> formatoId(contador),
         slot |-> ContadorValido(contador.anio, contador.seq)]

\* The whole call at clock instant t; falla: the setItem of the counter throws.
\* Yields the returned id and the counter slot after the call.
generarProximoId(slot, t, falla) ==
    LET anioActual == getFullYear(t)
        contador == avanzarContador(leerContador(slot, anioActual), anioActual)
    IN  IF falla THEN [id |-> idTemporal(t), slot |-> slot]
        ELSE [id |-> formatoId(contador),
              slot |-> ContadorValido(contador.anio, contador.seq)]

\* ---- obtenerCitas -----------------------------------------------------------
\* mutant of obtenerCitas: the unparseable value is not removed
obtenerCitasSinBorrar(slot) ==
    IF slot.kind \in {"absent", "empty", "garbage"}
    THEN [tipo |-> "array", citas |-> <<>>, slot |-> slot]
    ELSE [tipo |-> slot.kind, citas |-> slot.val, slot |-> slot]

\* Yields the returned value and the collection slot after the call: tipo is
\* the kind of value returned ("array", or what JSON.parse made of text of
\* another shape), citas its elements when it is an array.
\* line 55: nothing stored; lines 58-63: removeItem on a parse error;
\* line 57: whatever JSON.parse yields
obtenerCitas(slot) ==
    IF slot.kind \in {"absent", "empty"}
    THEN [tipo |-> "array", citas |-> <<>>, slot |-> slot]
    ELSE IF slot.kind = "garbage"
    THEN [tipo |-> "array", citas |-> <<>>, slot |-> SinCitas]
    ELSE [tipo |-> slot.kind, citas |-> slot.val, slot |-> slot]

\* ---- appointment objects ------------------------------------------------------
\* mutant of conId: the fields of the argument are not copied
conIdSinCampos(cita, nuevoId) == [f \in {"id"} |-> nuevoId]

\* mutant of conId: an id the argument carries wins over the new one
conIdConserva(cita, nuevoId) ==
    [f \in (DOMAIN cita) \cup {"id"} |->
        IF f \in DOMAIN cita THEN cita[f] ELSE nuevoId]

\* { ...cita, id: nuevoId }
conId(cita, nuevoId) ==
    [f \in (DOMAIN cita) \cup {"id"} |-> IF f = "id" THEN nuevoId ELSE cita[f]]

\* citas.findIndex(c => c.id === idToFind): 0 stands for -1
findIndex(citas, idToFind) ==
    IF \E i \in 1..Len(citas) : citas[i].id = idToFind
    THEN CHOOSE i \in 1..Len(citas) :
            /\ citas[i].id = idToFind
            /\ \A j \in 1..(i - 1) : citas[j].id # idToFind
    ELSE 0

\* mutant of filtrar: only the first record with the id is dropped
RECURSIVE filtrarPrimero(_, _)
filtrarPrimero(citas, id) ==
    IF citas = <<>> THEN <<>>
    ELSE IF Head(citas).id = id THEN Tail(citas)
    ELSE <<Head(citas)>> \o filtrarPrimero(Tail(citas), id)

\* mutant of filtrar: the test is inverted, the records with the id are kept
RECURSIVE filtrarInvertido(_, _)
filtrarInvertido(citas, id) ==
    IF citas = <<>> THEN <<>>
    ELSE (IF Head(citas).id = id THEN <<Head(citas)>> ELSE <<>>)
         \o filtrarInvertido(Tail(citas), id)

\* citas.filter(c => c.id !== id)
RECURSIVE filtrar(_, _)
filtrar(citas, id) ==
    IF citas = <<>> THEN <<>>
    ELSE (IF Head(citas).id # id THEN <<Head(citas)>> ELSE <<>>) \o filtrar(Tail(citas), id)

\* JSON.parse(JSON.stringify(citas)): a list of flat objects whose values are
\* strings comes back field for field
jsonIdaYVuelta(citas) ==
    [i \in 1..Len(citas) |-> [f \in DOMAIN citas[i] |-> citas[i][f]]]

\* mutant of reemplazar: the fields are merged into the stored record
reemplazarFusionando(citas, index, citaToSave) ==
    [citas EXCEPT ![index] =
        [f \in (DOMAIN @) \cup (DOMAIN citaToSave) |->
            IF f \in DOMAIN citaToSave THEN citaToSave[f] ELSE @[f]]]

\* citas[index] = citaToSave
reemplazar(citas, index, citaToSave) == [citas EXCEPT ![index] = citaToSave]

\* mutant of setItemCitas: the value is stored although the write throws
setItemCitasEscribe(slot, citas, falla) == [kind |-> "array", val |-> citas]

\* localStorage.setItem(STORAGE_KEY, JSON.stringify(citas)): the slot afterwards;
\* when the write throws (falla) the slot keeps its value
setItemCitas(slot, citas, falla) ==
    IF falla THEN slot ELSE CitasJson(jsonIdaYVuelta(citas))

\* lines 93-98: how guardarCita ends after its setItem; "throw" is the Error
\* "Fallo en la persistencia de datos"
retGuardarCita(fallaCitas) == IF fallaCitas THEN "throw" ELSE "undefined"

\* mutant of retEliminarCita: the failure of the write is raised
retEliminarCitaLanza(fallaCitas) == IF fallaCitas THEN "throw" ELSE "true"

\* lines 118-124: how eliminarCita ends after its setItem
retEliminarCita(fallaCitas) == IF fallaCitas THEN "false" ELSE "true"

\* ---- inputs -------------------------------------------------------------------
\* form contents without id; the two differ in the fields they carry
Cargas == { [nombre |-> <<"A">>],
            [nombre |-> <<"B">>, hora_reserva |-> <<"9">>] }

\* an id no allocation of the model produces ("2099-99999")
IdAjeno == formatoId([anio |-> 2099, seq |-> 99999])

\* ids a caller may supply besides those of the stored records: the first id
\* of the first year, and IdAjeno
IdsSueltos == { formatoId([anio |-> AnioBase, seq |-> 1]), IdAjeno }

\* ids a caller may supply when the collection is citas
IdsEntrada(citas) == { citas[i].id : i \in 1..Len(citas) } \cup IdsSueltos

\* mutant of conEditingId: the editing id is not put on the record
conEditingIdSinId(cleanedData, editingId) == cleanedData

\* cleanedData.id = form.dataset.editingId: the form contents with an id
conEditingId(cleanedData, editingId) ==
    [f \in (DOMAIN cleanedData) \cup {"id"} |->
        IF f = "id" THEN editingId ELSE cleanedData[f]]

\* arguments of guardarCita: no id, a falsy id (""), or a string id
CitasEntrada(citas) ==
    Cargas \cup { conEditingId(c, i) : c \in Cargas, i \in IdsEntrada(citas) }
           \cup { conEditingId([nombre |-> <<"A">>], <<>>) }

\* ---- history ------------------------------------------------------------------
\* ret is what the call returned: "undefined", "true", "false", the kind of
\* value obtenerCitas returned, "throw" when the call raised its persistence
\* Error, "TypeError" when a TypeError escaped it; fallaCitas: the call's write
\* of the collection threw
Llamada(op, rama, fallaCitas, ret) ==
    [op |-> op, rama |-> rama, fallaCitas |-> fallaCitas, ret |-> ret]

ContadoresDe(slot) ==
    IF slot.kind = "valid" THEN {[anio |-> slot.anio, seq |-> slot.seq]} ELSE {}

\* no call is returning
SinLlamada == Llamada("none", "none", FALSE, "none")

\* the booking page as setupIndexPageLogic finds it: no editing id, the modal
\* and the confirmation hidden, no error message shown
\* guardada remembers, while the confirmation is open, how the submission it
\* confirms was made: "crear" without an editing id, "editar" with one
FormInicial == [pagina |-> "index", editingId |-> Indefinido, modal |-> "none",
                confirm |-> "none", error |-> "none", guardada |-> "none"]

\* no function is being applied on its own
SinEntrada == [fn |-> "none"]
SinSalida == [hecho |-> FALSE]

\* ---- initial state: an empty store ------------------------------------------------
Init ==
    /\ citasSlot = SinCitas
    /\ counterSlot = SinContador
    /\ ahora = 0
    /\ ultima = SinLlamada
    /\ emitidos = <<>>
    /\ vistos = {}
    /\ form = FormInicial
    /\ entrada = SinEntrada
    /\ salida = SinSalida

\* The counter slot as a call may find it: absent, unparseable, parseable but
\* not of the shape {anio: number, seq: number}, left by a run of last year, or
\* about to outgrow the five digits of the suffix.
ContadoresIniciales ==
    { SinContador,
      [kind |-> "garbage", anio |-> 0, seq |-> 0],
      [kind |-> "shape", anio |-> 0, seq |-> 0],
      ContadorValido(AnioBase - 1, 2),
      ContadorValido(AnioBase, 99998) }

\* an empty collection with any of these counter slots
InitContador ==
    /\ citasSlot = SinCitas
    /\ counterSlot \in ContadoresIniciales
    /\ ahora = 0
    /\ ultima = SinLlamada
    /\ emitidos = <<>>
    /\ vistos = ContadoresDe(counterSlot)
    /\ form = FormInicial
    /\ entrada = SinEntrada
    /\ salida = SinSalida

\* The collection slot as a call may find it: absent, empty, unparseable, the
\* JSON text "null", of a number, of an object, or of an array.
CitasIniciales ==
    { SinCitas,
      [kind |-> "empty", val |-> <<>>],
      [kind |-> "garbage", val |-> <<>>],
      OtroJson("null"), OtroJson("number"), OtroJson("object"),
      CitasJson(<<>>) }

InitCorrupto ==
    /\ citasSlot \in CitasIniciales
    /\ counterSlot \in { SinContador, [kind |-> "garbage", anio |-> 0, seq |-> 0] }
    /\ ahora = 0
    /\ ultima = SinLlamada
    /\ emitidos = <<>>
    /\ vistos = {}
    /\ form = FormInicial
    /\ entrada = SinEntrada
    /\ salida = SinSalida

\* ---- guardarCita(cita) ---------------------------------------------------------
\* mutant of clonar: no copy is made, the argument itself is worked on
clonarAlias(objeto) == objeto

\* line 74, { ...cita }: a new object with the fields of the argument; ref says
\* which object it is
clonar(objeto) == [ref |-> "citaToSave", campos |-> objeto.campos]

\* lines 76-91: the branch the call takes on what obtenerCitas returned
ramaGuardarCita(cita, leido) ==
    LET \* the value has the methods of an array; on any other value
        \* findIndex (line 79) or push (line 90) is a TypeError
        esLista == leido.tipo = "array"
        tieneId == ("id" \in DOMAIN cita) /\ cita.id # <<>>
        \* lines 78-79: idToFind = String(citaToSave.id)
        index == IF tieneId /\ esLista THEN findIndex(leido.citas, aString(cita.id)) ELSE 0
    IN  [ esLista |-> esLista,
          index |-> index,
          crea |-> index = 0,
          \* generarProximoId is called: lines 84 and 89
          asigna |-> IF esLista THEN index = 0 ELSE ~tieneId,
          nombre |-> IF ~esLista THEN "noLista"
                     ELSE IF index # 0 THEN "actualizar"
                     ELSE IF tieneId THEN "crearConId" ELSE "crear" ]

\* The whole call with the slots holding cSlot and kSlot at clock instant t.
\* fallaContador: the setItem of the counter throws; fallaCitas: the setItem of
\* the collection throws.  Yields the slots after the call, how it ended, the
\* id the allocator returned, and the caller's object after the call.
guardarCita(cita, cSlot, kSlot, t, fallaContador, fallaCitas) ==
    LET leido == obtenerCitas(cSlot)
        citaToSave == clonar([ref |-> "cita", campos |-> cita])
        rama == ramaGuardarCita(citaToSave.campos, leido)
        gen == generarProximoId(kSlot, t, fallaContador)
        nuevas == IF rama.crea THEN Append(leido.citas, conId(citaToSave.campos, gen.id))
                  ELSE reemplazar(leido.citas, rama.index, citaToSave.campos)
    IN  [ id |-> gen.id,
          counterSlot |-> IF rama.asigna THEN gen.slot ELSE kSlot,
          citasSlot |-> IF rama.esLista THEN setItemCitas(leido.slot, nuevas, fallaCitas)
                        ELSE leido.slot,
          ret |-> IF rama.esLista THEN retGuardarCita(fallaCitas) ELSE "TypeError",
          \* lines 84 and 89 assign the id to citaToSave
          argumento |-> IF rama.asigna /\ citaToSave.ref = "cita"
                        THEN conId(cita, gen.id) ELSE cita ]

\* guardarCita(cita) on the store
GuardarCita(cita, fallaContador, fallaCitas) ==
    LET rama == ramaGuardarCita(cita, obtenerCitas(citasSlot))
        r == guardarCita(cita, citasSlot, counterSlot, ahora, fallaContador, fallaCitas)
    IN  /\ ultima = SinLlamada
        /\ (rama.esLista /\ rama.crea) => Len(obtenerCitas(citasSlot).citas) < MaxCitas
        /\ rama.asigna => Len(emitidos) < MaxEmitidos
        /\ ~rama.asigna => ~fallaContador
        /\ ~rama.esLista => ~fallaCitas
        /\ ultima' = Llamada("guardarCita", rama.nombre, fallaCitas, r.ret)
        /\ counterSlot' = r.counterSlot
        /\ emitidos' = IF rama.asigna
                       THEN Append(emitidos, [id |-> r.id, anio |-> getFullYear(ahora),
                                              falla |-> fallaContador])
                       ELSE emitidos
        /\ vistos' = vistos \cup ContadoresDe(counterSlot')
        /\ citasSlot' = r.citasSlot
        /\ UNCHANGED ahora

\* ---- eliminarCita(id) -----------------------------------------------------------
EliminarCita(id, fallaCitas) ==
    /\ ultima = SinLlamada
    /\ IF id = <<>>
       THEN /\ ~fallaCitas
            /\ ultima' = Llamada("eliminarCita", "sinId", FALSE, "false")
            /\ UNCHANGED <<citasSlot, counterSlot, ahora, emitidos, vistos>>
       ELSE LET leido == obtenerCitas(citasSlot)
                citas == leido.citas
                \* line 112: c.id !== String(id)
                nuevas == filtrar(citas, aString(id))
            IN  IF leido.tipo # "array"
                \* lines 109-112: length of null, filter of a number or an object
                THEN /\ ~fallaCitas
                     /\ citasSlot' = leido.slot
                     /\ ultima' = Llamada("eliminarCita", "noLista", FALSE, "TypeError")
                     /\ UNCHANGED <<counterSlot, ahora, emitidos, vistos>>
                ELSE IF Len(nuevas) = Len(citas)
                THEN /\ ~fallaCitas
                     /\ citasSlot' = leido.slot
                     /\ ultima' = Llamada("eliminarCita", "noEncontrada", FALSE, "false")
                     /\ UNCHANGED <<counterSlot, ahora, emitidos, vistos>>
                ELSE /\ citasSlot' = setItemCitas(leido.slot, nuevas, fallaCitas)
                     /\ ultima' = Llamada("eliminarCita", "encontrada", fallaCitas,
                                          retEliminarCita(fallaCitas))
                     /\ UNCHANGED <<counterSlot, ahora, emitidos, vistos>>

\* ---- obtenerCitas() called by a page ------------------------------------------------
ObtenerCitas ==
    LET leido == obtenerCitas(citasSlot)
    IN  /\ ultima = SinLlamada
        /\ citasSlot' = leido.slot
        /\ ultima' = Llamada("obtenerCitas",
                             IF citasSlot.kind \in {"absent", "empty"} THEN "vacia"
                             ELSE IF citasSlot.kind = "garbage" THEN "corrupta"
                             ELSE "leida",
                             FALSE, leido.tipo)
        /\ UNCHANGED <<counterSlot, ahora, emitidos, vistos>>

\* ---- the clock advances ------------------------------------------------------------
Tick ==
    /\ ultima = SinLlamada
    /\ ahora < MaxReloj
    /\ ahora' = ahora + 1
    /\ UNCHANGED <<citasSlot, counterSlot, ultima, emitidos, vistos>>
    /\ UNCHANGED <<form, entrada, salida>>

\* ---- the call returns to its caller -----------------------------------------------
Retornar ==
    /\ ultima # SinLlamada
    /\ ultima' = SinLlamada
    /\ UNCHANGED <<citasSlot, counterSlot, ahora, emitidos, vistos>>
    /\ UNCHANGED <<form, entrada, salida>>

\* ---- the booking page (setupIndexPageLogic) ------------------------------------------
\* what the form holds when it is submitted: every field is a string
DatosBase ==
    [ nombre |-> <<" ", "A">>, apellidos |-> <<"B">>,
      dni |-> <<"0", "0", "0", "0", "0", "0", "0", "0", "t">>,
      telefono |-> <<"6">>, fecha_nacimiento |-> <<"0">>,
      fecha_reserva |-> <<"1">>, hora_reserva |-> <<"1">>, observaciones |-> <<>> ]

Fechas == { <<"0">>, <<"1">> }
Horas == { <<"0">>, <<"1">> }

\* complete forms for every date and time, and forms that fail one validation:
\* a blank name, a wrong control letter, a birth date to come, no time
Datos ==
    { [DatosBase EXCEPT !.fecha_reserva = f, !.hora_reserva = h] : f \in Fechas, h \in Horas }
    \cup { [DatosBase EXCEPT !.nombre = <<" ">>],
           [DatosBase EXCEPT !.dni = <<"0", "0", "0", "0", "0", "0", "0", "0", "R">>],
           [DatosBase EXCEPT !.fecha_nacimiento = <<"1">>],
           [DatosBase EXCEPT !.hora_reserva = <<>>] }

\* lines 103-126: the first validation that fails, or "ok"
validar(data, t) ==
    IF \/ trim(data.nombre) = <<>> \/ trim(data.apellidos) = <<>>
       \/ trim(data.dni) = <<>> \/ trim(data.telefono) = <<>>
       \/ data.fecha_reserva = <<>> \/ data.hora_reserva = <<>>
       \/ data.fecha_nacimiento = <<>>
    THEN "campos"
    ELSE IF ~validarDNI(data.dni) THEN "dni"
    ELSE IF ~validarFechaHoraCita(data.fecha_reserva, data.hora_reserva, t) THEN "pasada"
    ELSE IF ~validarFechaNoFutura(data.fecha_nacimiento, t) THEN "nacimiento"
    ELSE "ok"

\* mutant of conflicto: the record being edited is not excluded
conflictoSinExcluir(citasExistentes, data, editingId) ==
    LET choca(c) == /\ campo(c, "fecha_reserva") = data.fecha_reserva
                    /\ campo(c, "hora_reserva") = data.hora_reserva
    IN  IF \E i \in 1..Len(citasExistentes) : choca(citasExistentes[i])
        THEN CHOOSE i \in 1..Len(citasExistentes) :
                /\ choca(citasExistentes[i])
                /\ \A j \in 1..(i - 1) : ~choca(citasExistentes[j])
        ELSE 0

\* lines 130-134, citasExistentes.find(...): the position of the first record
\* with the date and time of the form and another id; 0 stands for undefined
conflicto(citasExistentes, data, editingId) ==
    LET choca(c) == /\ campo(c, "fecha_reserva") = data.fecha_reserva
                    /\ campo(c, "hora_reserva") = data.hora_reserva
                    /\ campo(c, "id") # editingId
    IN  IF \E i \in 1..Len(citasExistentes) : choca(citasExistentes[i])
        THEN CHOOSE i \in 1..Len(citasExistentes) :
                /\ choca(citasExistentes[i])
                /\ \A j \in 1..(i - 1) : ~choca(citasExistentes[j])
        ELSE 0

\* lines 143-150
cleanedData(data) ==
    [f \in (DOMAIN data) \cup {"observaciones"} |->
        IF f \in {"nombre", "apellidos", "telefono"} THEN trim(data[f])
        ELSE IF f = "dni" THEN trim(toUpperCase(data.dni))
        ELSE IF f = "observaciones" THEN (IF campo(data, "observaciones") \in {Indefinido, <<>>} THEN <<>>
                                             ELSE trim(data.observaciones))
        ELSE data[f]]

\* hideModal: the modal hidden, the form reset, the editing id deleted
hideModal(f) == [f EXCEPT !.modal = "none", !.editingId = Indefinido, !.error = "none"]

\* mutant of displayError: the message stays hidden
displayErrorOculto(f) == f

\* displayError(message), lines 95-101: the error message is shown
displayError(f) == [f EXCEPT !.error = "block"]

\* handleSubmit with the form holding data
HandleSubmit(data, fallaContador, fallaCitas) ==
    LET paso == validar(data, ahora)
        leido == obtenerCitas(citasSlot)
        choque == conflicto(leido.citas, data, form.editingId)
        limpio == cleanedData(data)
        \* line 152
        aGuardar == IF form.editingId # Indefinido /\ form.editingId # <<>>
                    THEN conEditingId(limpio, form.editingId) ELSE limpio
    IN  /\ ultima = SinLlamada
        /\ form.pagina = "index"
        /\ form.modal = "flex"
        /\ IF paso # "ok"
           THEN /\ ~fallaContador /\ ~fallaCitas
                /\ form' = displayError(form)
                /\ ultima' = Llamada("handleSubmit", paso, FALSE, "undefined")
                /\ UNCHANGED <<citasSlot, counterSlot, ahora, emitidos, vistos>>
           ELSE IF leido.tipo # "array"
           \* line 130: find of null, of a number or of an object
           THEN /\ ~fallaContador /\ ~fallaCitas
                /\ UNCHANGED form
                /\ citasSlot' = leido.slot
                /\ ultima' = Llamada("handleSubmit", "noLista", FALSE, "TypeError")
                /\ UNCHANGED <<counterSlot, ahora, emitidos, vistos>>
           ELSE IF choque # 0
           THEN /\ ~fallaContador /\ ~fallaCitas
                /\ form' = displayError(form)
                /\ citasSlot' = leido.slot
                /\ ultima' = Llamada("handleSubmit", "conflicto", FALSE, "undefined")
                /\ UNCHANGED <<counterSlot, ahora, emitidos, vistos>>
           ELSE /\ GuardarCita(aGuardar, fallaContador, fallaCitas)
                \* lines 154-160
                /\ form' = IF fallaCitas THEN displayError(form)
                           ELSE [hideModal(form) EXCEPT
                                    !.confirm = "flex",
                                    !.guardada = IF aGuardar = limpio THEN "crear" ELSE "editar"]

\* the page is opened, with ?edit=editId or (editId empty) without:
\* setupIndexPageLogic on the fresh page, ending with loadEditData
AbrirPagina(editId) ==
    LET leido == obtenerCitas(citasSlot)
        hallada == /\ leido.tipo = "array"
                   /\ \E i \in 1..Len(leido.citas) : leido.citas[i].id = editId
    IN  /\ ultima = SinLlamada
        /\ IF editId = <<>>
           THEN form' = FormInicial /\ UNCHANGED citasSlot
           ELSE /\ citasSlot' = leido.slot
                /\ form' = IF hallada
                           THEN [FormInicial EXCEPT !.editingId = editId, !.modal = "flex"]
                           ELSE FormInicial
        /\ UNCHANGED <<counterSlot, ahora, ultima, emitidos, vistos, entrada, salida>>

\* showModal, on a click of the open button
ShowModal ==
    /\ ultima = SinLlamada
    /\ form.pagina = "index"
    /\ form.modal = "none"
    /\ form' = [form EXCEPT !.modal = "flex", !.error = "none"]
    /\ UNCHANGED <<almacen, ahora, entrada, salida>>

\* hideModal, on the close button, a click outside or Escape
HideModal ==
    /\ ultima = SinLlamada
    /\ form.pagina = "index"
    /\ form.modal = "flex"
    /\ form' = hideModal(form)
    /\ UNCHANGED <<almacen, ahora, entrada, salida>>

\* cerrarConfirmacion, on the buttons of the confirmation or Escape
CerrarConfirmacion ==
    /\ ultima = SinLlamada
    /\ form.pagina = "index"
    /\ form.confirm = "flex"
    /\ form' = [form EXCEPT !.confirm = "none",
                            !.guardada = "none",
                            !.pagina = IF form.editingId # Indefinido /\ form.editingId # <<>>
                                       THEN "check" ELSE "index"]
    /\ UNCHANGED <<almacen, ahora, entrada, salida>>

Enviar ==
    /\ \E data \in Datos, fc \in BOOLEAN, fl \in BOOLEAN : HandleSubmit(data, fc, fl)
    /\ Len(emitidos') <= MaxEnvios
    /\ UNCHANGED <<entrada, salida>>

Abrir == \E editId \in IdsEntrada(citasSlot.val) \cup {<<>>} : AbrirPagina(editId)

\* ---- the agenda page: ordenarCitas and separarCitasPorEstado -------------------------
\* mutant of comparar: a record without a date goes first
compararAlReves(a, b) ==
    LET dateA == getTime(campo(a, "fecha_reserva"), campo(a, "hora_reserva"))
        dateB == getTime(campo(b, "fecha_reserva"), campo(b, "hora_reserva"))
    IN  IF dateA = NaN THEN -1
        ELSE IF dateB = NaN THEN 1
        ELSE dateA - dateB

\* lines 275-284: the comparison function handed to sort
comparar(a, b) ==
    LET dateA == getTime(campo(a, "fecha_reserva"), campo(a, "hora_reserva"))
        dateB == getTime(campo(b, "fecha_reserva"), campo(b, "hora_reserva"))
    IN  IF dateA = NaN THEN 1
        ELSE IF dateB = NaN THEN -1
        ELSE dateA - dateB

\* Array.prototype.sort.  With two records without a date the comparison
\* function answers 1 whichever comes first, so the order sort leaves is the
\* engine's choice: sort is modelled by the two insertion sorts that engines
\* use for short arrays, which put their questions in opposite directions.
Algoritmos == { "lineal", "binario" }

RECURSIVE insertarLineal(_, _)
\* x is moved down from the end while comparefn(element before, x) > 0
insertarLineal(ordenadas, x) ==
    IF ordenadas = <<>> THEN <<x>>
    ELSE IF comparar(ordenadas[Len(ordenadas)], x) > 0
    THEN Append(insertarLineal(SubSeq(ordenadas, 1, Len(ordenadas) - 1), x),
                ordenadas[Len(ordenadas)])
    ELSE Append(ordenadas, x)

RECURSIVE posicionBinaria(_, _, _, _)
\* the place of pivot among ordenadas[left .. right - 1], found by halving on
\* comparefn(pivot, element) < 0
posicionBinaria(ordenadas, pivot, left, right) ==
    IF left >= right THEN left
    ELSE LET mid == left + ((right - left) \div 2)
         IN  IF comparar(pivot, ordenadas[mid]) < 0
             THEN posicionBinaria(ordenadas, pivot, left, mid)
             ELSE posicionBinaria(ordenadas, pivot, mid + 1, right)

insertarBinario(ordenadas, x) ==
    LET p == posicionBinaria(ordenadas, x, 1, Len(ordenadas) + 1)
    IN  SubSeq(ordenadas, 1, p - 1) \o <<x>> \o SubSeq(ordenadas, p, Len(ordenadas))

RECURSIVE sort(_, _)
sort(lista, alg) ==
    IF lista = <<>> THEN <<>>
    ELSE LET previas == sort(SubSeq(lista, 1, Len(lista) - 1), alg)
         IN  IF alg = "lineal" THEN insertarLineal(previas, lista[Len(lista)])
             ELSE insertarBinario(previas, lista[Len(lista)])

\* mutant of copiarLista: no copy is made, the list itself is sorted
copiarListaAlias(objeto) == objeto

\* line 275, [...citas]: a new list with the elements of the argument; ref
\* says which list it is
copiarLista(objeto) == [ref |-> "copia", lista |-> objeto.lista]

\* ordenarCitas(citas): [...citas].sort(...)
ordenarCitas(citas, alg) == sort(copiarLista([ref |-> "citas", lista |-> citas]).lista, alg)

\* the caller's list after ordenarCitas(citas): sort works in place, on the
\* list it is called on
citasTrasOrdenar(citas, alg) ==
    IF copiarLista([ref |-> "citas", lista |-> citas]).ref = "citas"
    THEN sort(citas, alg) ELSE citas

\* ahora.getSeconds() and ahora.getMilliseconds() of the instant t
getSeconds(t) == (t \div 1000) % 60
getMilliseconds(t) == t % 1000

\* mutant of horaActualMili: the seconds are not taken off
horaActualMiliConSegundos(t) == t - getMilliseconds(t)

\* line 296
horaActualMili(t) == t - (getSeconds(t) * 1000) - getMilliseconds(t)

RECURSIVE separarCitasPorEstado(_, _)
\* separarCitasPorEstado(citas) at clock instant t: the reduce of lines 298-314
separarCitasPorEstado(citas, t) ==
    IF citas = <<>> THEN [futuras |-> <<>>, pasadas |-> <<>>]
    ELSE LET acc == separarCitasPorEstado(SubSeq(citas, 1, Len(citas) - 1), t)
             cita == citas[Len(citas)]
             fechaCita == getTime(campo(cita, "fecha_reserva"), campo(cita, "hora_reserva"))
         IN  IF fechaCita = NaN THEN [acc EXCEPT !.pasadas = Append(@, cita)]
             ELSE IF fechaCita >= horaActualMili(t)
             THEN [acc EXCEPT !.futuras = Append(@, cita)]
             ELSE [acc EXCEPT !.pasadas = Append(@, cita)]

\* ---- the agenda page: the card of a record ---------------------------------------------
\* A string is a sequence of tokens; a token of one character is a character
\* of the string, and the text of an entity or of a piece of the card's
\* template is one token.
\* escapeHTML(str): '' for what is no string and for '', else each of & < > ' "
\* replaced by its entity
escapeHTML(str) ==
    IF str = Indefinido \/ str = <<>> THEN <<>>
    ELSE [i \in 1..Len(str) |->
            CASE str[i] = "&" -> "&amp;"
              [] str[i] = "<" -> "&lt;"
              [] str[i] = ">" -> "&gt;"
              [] str[i] = "'" -> "&#39;"
              [] str[i] = "\"" -> "&quot;"
              [] OTHER -> str[i]]

RECURSIVE split(_, _)
\* s.split(sep) of a string that is not empty
split(s, sep) ==
    IF \A i \in 1..Len(s) : s[i] # sep THEN <<s>>
    ELSE LET i == CHOOSE k \in 1..Len(s) : s[k] = sep /\ \A j \in 1..(k - 1) : s[j] # sep
         IN  <<SubSeq(s, 1, i - 1)>> \o split(SubSeq(s, i + 1, Len(s)), sep)

\* formatearFecha(dateString): 'YYYY-MM-DD' to 'DD/MM/YYYY'
formatearFecha(dateString) ==
    IF dateString = Indefinido \/ dateString = <<>> THEN <<>>
    ELSE LET parts == split(dateString, "-")
         IN  IF Len(parts) = 3 THEN parts[3] \o <<"/">> \o parts[2] \o <<"/">> \o parts[1]
             ELSE dateString

\* createCitaCardHTML(cita): the markup of the card
createCitaCardHTML(cita) ==
    LET idSaneado == escapeHTML(campo(cita, "id"))
        nombreSaneado == escapeHTML(campo(cita, "nombre"))
        apellidosSaneados == escapeHTML(campo(cita, "apellidos"))
        dniSaneado == escapeHTML(campo(cita, "dni"))
        telefonoSaneado == escapeHTML(campo(cita, "telefono"))
        observacionesSaneadas ==
            IF campo(cita, "observaciones") \in { Indefinido, <<>> } THEN <<>>
            ELSE escapeHTML(cita.observaciones)
        fechaFormateada == formatearFecha(campo(cita, "fecha_reserva"))
        fechaNacFormateada == formatearFecha(campo(cita, "fecha_nacimiento"))
        horaSaneada == escapeHTML(campo(cita, "hora_reserva"))
        obsHtml == IF observacionesSaneadas # <<>>
                   THEN <<"<div class=\"cita-footer\"><p>Obs: ">> \o observacionesSaneadas
                        \o <<"</p></div>">>
                   ELSE <<>>
    IN  <<"<article class=\"cita-card\" data-cita-id=\"">> \o idSaneado
        \o <<"\"><div class=\"cita-header\"><div><span class=\"cita-fecha\">">> \o fechaFormateada
        \o <<"</span><span class=\"cita-hora\">">> \o horaSaneada
        \o <<"</span></div><span class=\"cita-id\">ID: ">> \o idSaneado
        \o <<"</span></div><div class=\"cita-body\"><p><strong>Paciente:</strong> ">>
        \o nombreSaneado \o <<" ">> \o apellidosSaneados
        \o <<"</p><p><strong>DNI:</strong> ">> \o dniSaneado
        \o <<"</p><p><strong>Telefono:</strong> ">> \o telefonoSaneado
        \o <<"</p><p><strong>Fecha Nacimiento:</strong> ">> \o fechaNacFormateada
        \o <<"</p></div>">> \o obsHtml
        \o <<"<div class=\"cita-actions\"><button class=\"cita-button cita-button--edit\" data-id=\"">>
        \o idSaneado \o <<"\" aria-label=\"Editar cita de ">> \o nombreSaneado
        \o <<"\">Editar</button><button class=\"cita-button cita-button--delete\" data-id=\"">>
        \o idSaneado \o <<"\" aria-label=\"Borrar cita de ">> \o nombreSaneado
        \o <<"\">Borrar</button></div></article>">>

\* ---- the agenda page: renderCitas -----------------------------------------------------
RECURSIVE filterAndMapCitas(_, _)
\* lines 404-409: the cards of the records whose name, surname, national id
\* and id hold the query; the page's markup has them one after the other
filterAndMapCitas(citasArr, query) ==
    IF citasArr = <<>> THEN <<>>
    ELSE LET cita == Head(citasArr)
             fullText == toLowerCase(texto(campo(cita, "nombre")) \o <<" ">>
                                     \o texto(campo(cita, "apellidos")) \o <<" ">>
                                     \o texto(campo(cita, "dni")) \o <<" ">>
                                     \o texto(campo(cita, "id")))
         IN  (IF includes(fullText, query) THEN <<createCitaCardHTML(cita)>> ELSE <<>>)
             \o filterAndMapCitas(Tail(citasArr), query)

RECURSIVE join(_)
\* cards.join(''): the markup of the cards, one after the other
join(cards) == IF cards = <<>> THEN <<>> ELSE Head(cards) \o join(Tail(cards))

RECURSIVE length(_)
\* html.length: the number of characters of a string, which its tokens add up
\* to (the card's template is written here without its line breaks and
\* pictures, so the real number is greater still)
length(html) == IF html = <<>> THEN 0 ELSE Len(Head(html)) + length(Tail(html))

\* no summary of the past records is on the page
SinResumen == [mostrado |-> FALSE, total |-> 0, visible |-> 0]

\* renderCitas(filtro) at clock instant t with the collection slot holding
\* slot: what the container shows, as the message or the cards of each section,
\* and the two numbers of the summary of the past records
renderCitas(slot, filtro, t, alg) ==
    LET leido == obtenerCitas(slot)
        citasOrdenadas == ordenarCitas(leido.citas, alg)
        separadas == separarCitasPorEstado(citasOrdenadas, t)
        query == trim(toLowerCase(filtro))
        futurasHtml == filterAndMapCitas(separadas.futuras, query)
        pasadasHtml == filterAndMapCitas(separadas.pasadas, query)
    IN  IF leido.tipo # "array"
        \* lines 390 and 275: length of null, spread of a number or an object
        THEN [mensaje |-> "TypeError", futuras |-> <<>>, pasadas |-> <<>>,
              resumen |-> SinResumen]
        ELSE IF Len(leido.citas) = 0
        THEN [mensaje |-> "No hay citas programadas.", futuras |-> <<>>, pasadas |-> <<>>,
              resumen |-> SinResumen]
        ELSE IF futurasHtml = <<>> /\ pasadasHtml = <<>>
        THEN [mensaje |-> "No se encontraron citas", futuras |-> <<>>, pasadas |-> <<>>,
              resumen |-> SinResumen]
        ELSE [mensaje |-> "none", futuras |-> futurasHtml, pasadas |-> pasadasHtml,
              \* lines 419-424: pasadasHtml is the joined string
              resumen |-> IF length(join(pasadasHtml)) > 0
                          THEN [mostrado |-> TRUE, total |-> Len(separadas.pasadas),
                                visible |-> length(join(pasadasHtml))]
                          ELSE SinResumen]

\* ---- functions applied on their own ---------------------------------------------------
\* the fields of a record that the card shows
CamposTarjeta == { "id", "nombre", "apellidos", "dni", "telefono", "observaciones",
                   "fecha_reserva", "hora_reserva", "fecha_nacimiento" }

\* values a field of a stored record may hold: plain text, text with the
\* characters of markup, a date, text with hyphens
ValoresTarjeta ==
    { <<>>, <<"a">>, <<"<">>, <<">", "&">>, <<"'", "\"">>,
      <<"1", "-", "2", "-", "3">>, <<"<", "-", "a", "-", "a">>, <<"a", "-", "<">> }

\* stored records for the card: every field plain but one, which holds any of
\* the values or is missing
CitasTarjeta ==
    { [g \in CamposTarjeta |-> IF g = f THEN v ELSE <<"a">>] :
        f \in CamposTarjeta, v \in ValoresTarjeta }
    \cup { [g \in CamposTarjeta \ {f} |-> <<"a">>] : f \in CamposTarjeta }

EntradasCreateCitaCardHTML ==
    { [fn |-> "createCitaCardHTML", cita |-> c] : c \in CitasTarjeta }

\* counter slots that are parseable but not {anio: number, seq: number}: of
\* another kind of value, and an object whose anio or seq is text
ContadoresSinForma ==
    { [kind |-> "shape", anio |-> 0, seq |-> 0],
      [kind |-> "shape", anio |-> AnioBase, seq |-> 7] }

EntradasGenerarProximoId ==
    { [fn |-> "generarProximoId", counterSlot |-> k, t |-> t, falla |-> f] :
        k \in ContadoresIniciales \cup ContadoresSinForma,
        t \in { 0, MaxReloj }, f \in BOOLEAN }

LlamarCreateCitaCardHTML ==
    /\ entrada.fn = "createCitaCardHTML"
    /\ ~salida.hecho
    /\ salida' = [hecho |-> TRUE, val |-> createCitaCardHTML(entrada.cita)]
    /\ UNCHANGED <<almacen, ahora, form, entrada>>

LlamarGenerarProximoId ==
    /\ entrada.fn = "generarProximoId"
    /\ ~salida.hecho
    /\ salida' = [hecho |-> TRUE,
                  val |-> generarProximoId(entrada.counterSlot, entrada.t, entrada.falla)]
    /\ UNCHANGED <<almacen, ahora, form, entrada>>

\* stored records as the agenda page may find them: three with dates and times
\* (two at the same minute), one whose date is no date, one without the fields
CitasAgenda ==
    { [id |-> <<"1">>, fecha_reserva |-> <<"0">>, hora_reserva |-> <<"1">>],
      [id |-> <<"2">>, fecha_reserva |-> <<"0">>, hora_reserva |-> <<"1">>],
      [id |-> <<"3">>, fecha_reserva |-> <<"0">>, hora_reserva |-> <<"2">>],
      [id |-> <<"4">>, fecha_reserva |-> <<"1">>, hora_reserva |-> <<"0">>],
      [id |-> <<"5">>, fecha_reserva |-> <<"x">>, hora_reserva |-> <<"1">>],
      [id |-> <<"6">>] }

RECURSIVE Listas(_)
\* the lists of at most n of these records
Listas(n) ==
    IF n = 0 THEN { <<>> }
    ELSE Listas(n - 1) \cup { Append(l, c) : l \in Listas(n - 1), c \in CitasAgenda }

\* clock instants around the minute of the records of time 1: before it, at its
\* start, within its first second, and at later seconds of it; after it
Instantes == { 59999, 60000, 60001, 60999, 61000, 119999, 120000 }

\* a stored record with the first id of the first year
CitaGuardada == conEditingId([nombre |-> <<"A">>], formatoId([anio |-> AnioBase, seq |-> 1]))

EntradasGuardarCita ==
    { [fn |-> "guardarCita", cita |-> c, citasSlot |-> cs, counterSlot |-> SinContador,
       t |-> 0, fallaContador |-> fc, fallaCitas |-> fl] :
        c \in CitasEntrada(<<CitaGuardada>>)
                 \cup { conEditingId([nombre |-> <<"B">>], NoString(CitaGuardada.id)) },
        cs \in { SinCitas, OtroJson("null"), CitasJson(<<CitaGuardada>>) },
        fc \in BOOLEAN, fl \in BOOLEAN }

EntradasOrdenarCitas ==
    { [fn |-> "ordenarCitas", citas |-> l] : l \in Listas(MaxLista) }

EntradasSepararCitas ==
    { [fn |-> "separarCitasPorEstado", citas |-> l, t |-> t] :
        l \in Listas(MaxLista - 1), t \in Instantes }

\* what the date and the time fields of the form may hold
EntradasValidarFechaHoraCita ==
    { [fn |-> "validarFechaHoraCita", fecha |-> f, hora |-> h, t |-> t] :
        f \in { <<>>, <<"0">>, <<"1">>, <<"x">> },
        h \in { <<>>, <<"0">>, <<"1">>, <<"2">>, <<"x">> },
        t \in Instantes }

LlamarValidarFechaHoraCita ==
    /\ entrada.fn = "validarFechaHoraCita"
    /\ ~salida.hecho
    /\ salida' = [hecho |-> TRUE,
                  val |-> validarFechaHoraCita(entrada.fecha, entrada.hora, entrada.t)]
    /\ UNCHANGED <<almacen, ahora, form, entrada>>

\* the agenda page is drawn: over no collection, one that is no list, and the
\* lists; without filter, with a blank one, with text of an id, with other text
EntradasRenderCitas ==
    { [fn |-> "renderCitas", citasSlot |-> cs, filtro |-> q, t |-> 120000] :
        cs \in { SinCitas, OtroJson("null") } \cup { CitasJson(l) : l \in Listas(MaxLista - 1) },
        q \in { <<>>, <<" ">>, <<"1">>, <<"U">>, <<"z">> } }

LlamarRenderCitas ==
    /\ entrada.fn = "renderCitas"
    /\ ~salida.hecho
    /\ \E alg \in Algoritmos :
          salida' = [hecho |-> TRUE,
                     val |-> renderCitas(entrada.citasSlot, entrada.filtro, entrada.t, alg)]
    /\ UNCHANGED <<almacen, ahora, form, entrada>>

\* the call of guardarCita returns or raises
LlamarGuardarCita ==
    /\ entrada.fn = "guardarCita"
    /\ ~salida.hecho
    /\ salida' = [hecho |-> TRUE,
                  val |-> guardarCita(entrada.cita, entrada.citasSlot, entrada.counterSlot,
                                      entrada.t, entrada.fallaContador, entrada.fallaCitas)]
    /\ UNCHANGED <<almacen, ahora, form, entrada>>

LlamarOrdenarCitas ==
    /\ entrada.fn = "ordenarCitas"
    /\ ~salida.hecho
    /\ \E alg \in Algoritmos :
          salida' = [hecho |-> TRUE, val |-> ordenarCitas(entrada.citas, alg),
                     citas |-> citasTrasOrdenar(entrada.citas, alg)]
    /\ UNCHANGED <<almacen, ahora, form, entrada>>

LlamarSepararCitas ==
    /\ entrada.fn = "separarCitasPorEstado"
    /\ ~salida.hecho
    /\ salida' = [hecho |-> TRUE, val |-> separarCitasPorEstado(entrada.citas, entrada.t)]
    /\ UNCHANGED <<almacen, ahora, form, entrada>>

NextFunciones ==
    \/ LlamarGuardarCita \/ LlamarOrdenarCitas \/ LlamarSepararCitas
    \/ LlamarCreateCitaCardHTML \/ LlamarGenerarProximoId
    \/ LlamarValidarFechaHoraCita \/ LlamarRenderCitas

\* one of the functions is about to be called, with any of its arguments
InitFunciones ==
    /\ citasSlot = SinCitas
    /\ counterSlot = SinContador
    /\ ahora = 0
    /\ ultima = SinLlamada
    /\ emitidos = <<>>
    /\ vistos = {}
    /\ form = FormInicial
    /\ entrada \in EntradasGuardarCita \cup EntradasOrdenarCitas \cup EntradasSepararCitas
                     \cup EntradasCreateCitaCardHTML \cup EntradasGenerarProximoId
                     \cup EntradasValidarFechaHoraCita \cup EntradasRenderCitas
    /\ salida = SinSalida

SpecFunciones == InitFunciones /\ [][NextFunciones]_vars

\* ---- the agenda page: the delete-confirmation modal (setupCheckPageLogic) --------------
\* the value null
Null == <<"null">>

\* The agenda page as setupCheckPageLogic leaves it (lines 319-320): no id to
\* delete, no cleanup functions, the modal with no display of its own set.
\* listeners holds the keydown listeners that trapFocus (on the modal) and
\* handleEscapeKey (on the document) have registered and not removed; clicado
\* remembers the id of the delete button clicked last, and quitados how many
\* cleanup functions the last closeDelModal ran.
AgendaInicial ==
    [pagina |-> "check", idParaBorrar |-> Null, display |-> "", cleanupFunctions |-> <<>>,
     listeners |-> {}, clicado |-> Null, quitados |-> 0]

\* closeDelModal, lines 331-340: each cleanup function removes its listener
closeDelModal(p) ==
    [p EXCEPT !.display = "none",
              !.idParaBorrar = Null,
              !.listeners = @ \ { p.cleanupFunctions[i] : i \in 1..Len(p.cleanupFunctions) },
              !.cleanupFunctions = <<>>,
              !.quitados = Len(p.cleanupFunctions)]

\* the n-th pair of listeners that the page registers
Oyentes(n) == << [tipo |-> "trap", n |-> n], [tipo |-> "escape", n |-> n] >>

\* mutant of openDelModal: the cleanup functions of an opening take the place
\* of those of the opening before
openDelModalSinAcumular(p, id) ==
    LET nuevos == Oyentes((Cardinality(p.listeners) \div 2) + 1)
    IN  [p EXCEPT !.idParaBorrar = id,
                  !.display = "flex",
                  !.listeners = @ \cup { nuevos[1], nuevos[2] },
                  !.cleanupFunctions = nuevos]

\* openDelModal(id), lines 342-356: trapFocus and handleEscapeKey register a
\* listener each and their cleanup functions are pushed
openDelModal(p, id) ==
    LET nuevos == Oyentes((Cardinality(p.listeners) \div 2) + 1)
    IN  [p EXCEPT !.idParaBorrar = id,
                  !.display = "flex",
                  !.listeners = @ \cup { nuevos[1], nuevos[2] },
                  !.cleanupFunctions = @ \o nuevos]

RECURSIVE despacharEscape(_, _)
\* a keydown of Escape goes to the listeners of handleEscapeKey registered on
\* the document when it arrives, in the order of their registration, one
\* removed by then being left out: lines 165-169 of the utilities
despacharEscape(p, pendientes) ==
    IF pendientes = <<>> THEN p
    ELSE despacharEscape(IF Head(pendientes) \in p.listeners /\ p.display = "flex"
                         THEN closeDelModal(p) ELSE p,
                         Tail(pendientes))

\* a delete button of a card is clicked: lines 470-485; a button with no id
\* does nothing
ClicBorrar(id) ==
    /\ ultima = SinLlamada
    /\ form.pagina = "check"
    /\ Cardinality(form.listeners) < 2 * MaxAperturas
    /\ form' = IF id = <<>> THEN form ELSE [openDelModal(form, id) EXCEPT !.clicado = id]
    /\ UNCHANGED <<almacen, ahora, entrada, salida>>

\* the cancel button, the close mark or the backdrop of the modal is clicked:
\* lines 359-363
CerrarModal ==
    /\ ultima = SinLlamada
    /\ form.pagina = "check"
    /\ form' = closeDelModal(form)
    /\ UNCHANGED <<almacen, ahora, entrada, salida>>

\* the Escape key is pressed
TeclaEscape ==
    /\ ultima = SinLlamada
    /\ form.pagina = "check"
    /\ form' = despacharEscape(form,
                   SelectSeq([n \in 1..MaxAperturas + 1 |-> Oyentes(n)[2]],
                             LAMBDA l : l \in form.listeners))
    /\ UNCHANGED <<almacen, ahora, entrada, salida>>

\* the confirm button is clicked: lines 365-384
ConfirmarBorrado(fallaCitas) ==
    /\ form.pagina = "check"
    /\ IF form.idParaBorrar # Null /\ form.idParaBorrar # <<>>
       THEN \* eliminarCita returns true or false or raises; each way ends
            \* with closeDelModal
            /\ EliminarCita(form.idParaBorrar, fallaCitas)
            /\ form' = closeDelModal(form)
       ELSE /\ ultima = SinLlamada
            /\ ~fallaCitas
            /\ UNCHANGED <<form, almacen, ahora>>
    /\ UNCHANGED <<entrada, salida>>

\* the events of the agenda page
Borrar == \E id \in IdsEntrada(citasSlot.val) \cup {<<>>} : ClicBorrar(id)
Confirmar == \E fl \in BOOLEAN : ConfirmarBorrado(fl)

NextBorrado == Borrar \/ TeclaEscape \/ CerrarModal \/ Confirmar \/ Retornar

\* the agenda page just set up, over no collection, over a value that is no
\* list, and over lists of up to three records
InitBorrado ==
    /\ citasSlot \in { SinCitas, OtroJson("null") }
                     \cup { CitasJson([i \in 1..n |->
                                conEditingId([nombre |-> <<"A">>],
                                             formatoId([anio |-> AnioBase, seq |-> i]))]) :
                            n \in 0..3 }
    /\ counterSlot = SinContador
    /\ ahora = 0
    /\ ultima = SinLlamada
    /\ emitidos = <<>>
    /\ vistos = {}
    /\ form = AgendaInicial
    /\ entrada = SinEntrada
    /\ salida = SinSalida

SpecBorrado == InitBorrado /\ [][NextBorrado]_vars

\* guardarCita called on its own
Guardar ==
    /\ \E cita \in CitasEntrada(citasSlot.val), fc \in BOOLEAN, fl \in BOOLEAN :
            GuardarCita(cita, fc, fl)
    /\ UNCHANGED <<form, entrada, salida>>

\* eliminarCita called by the agenda page
Eliminar ==
    /\ \E id \in IdsEntrada(citasSlot.val) \cup {<<>>}, fl \in BOOLEAN : EliminarCita(id, fl)
    /\ UNCHANGED <<form, entrada, salida>>

\* obtenerCitas called on its own
Listar == ObtenerCitas /\ UNCHANGED <<form, entrada, salida>>

Next == Guardar \/ Eliminar \/ Listar \/ Retornar \/ Tick

Spec == Init /\ [][Next]_vars

\* the same operations, started with any of the counter slots above
SpecContador == InitContador /\ [][Next]_vars

\* the booking page and the removals of the agenda page
NextFormulario ==
    Abrir \/ ShowModal \/ HideModal \/ Enviar \/ CerrarConfirmacion
          \/ Eliminar \/ Retornar

\* an empty store and the booking page just opened, at any clock instant
InitFormulario ==
    /\ citasSlot = SinCitas
    /\ counterSlot = SinContador
    /\ ahora \in 0..MaxReloj
    /\ ultima = SinLlamada
    /\ emitidos = <<>>
    /\ vistos = {}
    /\ form = FormInicial
    /\ entrada = SinEntrada
    /\ salida = SinSalida

\* The page in use from the empty store, the events following one another
\* within one clock instant.
SpecFormulario == InitFormulario /\ [][NextFormulario]_vars

\* the same operations, started with any content of the collection slot and
\* an absent or unparseable counter slot
SpecCorrupto == InitCorrupto /\ [][Next]_vars

\* ---- shape of the state ---------------------------------------------------------
TypeOK ==
    /\ citasSlot.kind \in {"absent", "empty", "garbage", "array", "null", "number", "object"}
    /\ Len(citasSlot.val) <= MaxCitas
    /\ counterSlot.kind \in {"absent", "garbage", "shape", "valid"}
    /\ ahora \in 0..MaxReloj

\* ---- the claims --------------------------------------------------------------------
\* the persisted collection, as obtenerCitas returns it
Guardadas == obtenerCitas(citasSlot).citas

\* C1: no two records of the persisted collection have the same id, in every
\* state reachable from the empty store by guardarCita and eliminarCita calls,
\* whatever writes fail and whatever the clock instants of the calls.
C1_IdsUnicos ==
    \A i, j \in 1..Len(Guardadas) : i # j => Guardadas[i].id # Guardadas[j].id

\* the text of an id after its first "-"
sufijo(id) ==
    LET p == CHOOSE k \in 1..Len(id) : id[k] = "-" /\ \A m \in 1..(k - 1) : id[m] # "-"
    IN  SubSeq(id, p + 1, Len(id))

\* C2: of the ids generarProximoId returned within one calendar year with the
\* counter write succeeding, a later one always has a strictly greater numeric
\* suffix than an earlier one (hence they are pairwise distinct).
C2_SufijosCrecientes ==
    \A i, j \in 1..Len(emitidos) :
        (i < j /\ ~emitidos[i].falla /\ ~emitidos[j].falla
               /\ emitidos[i].anio = emitidos[j].anio)
        => /\ emitidos[i].id # emitidos[j].id
           /\ Numero(sufijo(emitidos[i].id)) < Numero(sufijo(emitidos[j].id))

\* C2 witness: two successive allocations of one year, both persisted, the
\* second with a suffix of more than five digits
C2_Witness ==
    \E i \in 1..(Len(emitidos) - 1) :
        /\ ~emitidos[i].falla /\ ~emitidos[i + 1].falla
        /\ emitidos[i].anio = emitidos[i + 1].anio
        /\ Len(sufijo(emitidos[i + 1].id)) > 5

\* C3: the persisted sequence never falls below a sequence the counter slot
\* held earlier for the same year.
C3_SeqNoDecrece ==
    counterSlot.kind = "valid" =>
        \A v \in vistos : v.anio = counterSlot.anio => v.seq <= counterSlot.seq

\* C3 witness: after a change of year, the counter has advanced within the
\* new year
C3_Witness ==
    /\ counterSlot.kind = "valid"
    /\ \E v \in vistos : v.anio < counterSlot.anio
    /\ \E v \in vistos : v.anio = counterSlot.anio /\ v.seq < counterSlot.seq

\* ---- guardarCita and eliminarCita, call by call ------------------------------------
\* some stored record has this id
Existe(id) == \E i \in 1..Len(Guardadas) : Guardadas[i].id = id

\* the position of the first stored record with this id
Posicion(id) ==
    CHOOSE i \in 1..Len(Guardadas) :
        Guardadas[i].id = id /\ \A j \in 1..(i - 1) : Guardadas[j].id # id

\* the collection after the step is the one before it plus one record at the end
AgregaUna ==
    /\ Len(Guardadas') = Len(Guardadas) + 1
    /\ \A i \in 1..Len(Guardadas) : Guardadas'[i] = Guardadas[i]

\* the appended record carries this id and otherwise exactly the fields of cita
UltimaEs(cita, id) ==
    LET nueva == Guardadas'[Len(Guardadas')]
    IN  /\ DOMAIN nueva = (DOMAIN cita) \cup {"id"}
        /\ nueva.id = id
        /\ \A f \in (DOMAIN cita) \ {"id"} : nueva[f] = cita[f]

\* the step called the allocator once, and it returned this id
Asignado(id) ==
    /\ Len(emitidos') = Len(emitidos) + 1
    /\ emitidos'[Len(emitidos')].id = id
    /\ \A i \in 1..Len(emitidos) : emitidos'[i] = emitidos[i]

\* the step is a call of this operation
Es(op) == ultima = SinLlamada /\ ultima'.op = op

\* C4: guardarCita with a record that carries no id (the collection write
\* succeeding) appends exactly one record: its id is the one the allocator
\* returned in this call, its other fields are those of the input, and the
\* records stored before are kept unchanged and in the same order.
C4_CrearAgregaUna ==
    [][Es("guardarCita") => \A cita \in Cargas, fc \in BOOLEAN :
          GuardarCita(cita, fc, FALSE) =>
              /\ AgregaUna
              /\ Asignado(Guardadas'[Len(Guardadas')].id)
              /\ Guardadas'[Len(Guardadas')].id = generarProximoId(counterSlot, ahora, fc).id
              /\ UltimaEs(cita, Guardadas'[Len(Guardadas')].id)
              /\ ultima'.ret = "undefined"]_vars

\* C4 witness: a record without id was saved after two others
C4_Witness ==
    /\ ultima = Llamada("guardarCita", "crear", FALSE, "undefined")
    /\ Len(Guardadas) >= 3
    /\ emitidos # <<>>
    /\ Guardadas[Len(Guardadas)].id = emitidos[Len(emitidos)].id

\* C5: guardarCita with the id of a stored record (the collection write
\* succeeding) puts the whole input in the place of that record: the fields are
\* exactly those of the input, the length, the other records and the persisted
\* counter are unchanged, and the allocator is not called.
C5_ActualizarReemplaza ==
    [][Es("guardarCita") => \A c \in Cargas, i \in 1..Len(Guardadas) :
          LET cita == conEditingId(c, Guardadas[i].id)
          IN  GuardarCita(cita, FALSE, FALSE) =>
              /\ Len(Guardadas') = Len(Guardadas)
              /\ Guardadas'[Posicion(cita.id)] = cita
              /\ DOMAIN Guardadas'[Posicion(cita.id)] = DOMAIN cita
              /\ \A j \in 1..Len(Guardadas) :
                    j # Posicion(cita.id) => Guardadas'[j] = Guardadas[j]
              /\ counterSlot' = counterSlot
              /\ emitidos' = emitidos
              /\ ultima'.ret = "undefined"]_vars

\* C5 witness: an update was saved into a collection of several records, and
\* some record lacks a field that another one carries
C5_Witness ==
    /\ ultima = Llamada("guardarCita", "actualizar", FALSE, "undefined")
    /\ Len(Guardadas) >= 2
    /\ \E i, j \in 1..Len(Guardadas) : DOMAIN Guardadas[i] # DOMAIN Guardadas[j]

\* C6 as stated: guardarCita with an id no stored record has appends a record
\* whose id is freshly allocated and is not the supplied id, and modifies no
\* stored record.
C6_IdNuevoDistinto ==
    [][Es("guardarCita") => \A c \in Cargas, i \in IdsSueltos, fc \in BOOLEAN :
          LET cita == conEditingId(c, i)
          IN  (~Existe(i) /\ GuardarCita(cita, fc, FALSE)) =>
              /\ AgregaUna
              /\ Asignado(Guardadas'[Len(Guardadas')].id)
              /\ Guardadas'[Len(Guardadas')].id # cita.id]_vars

\* C6 amended: guardarCita with an id no stored record has (the collection
\* write succeeding) appends a record whose id is the one generarProximoId
\* returns in this call for the persisted counter and the clock, whatever the
\* supplied id is, with the other fields of the input, and modifies no stored
\* record.
C6_IdNuevoDelAsignador ==
    [][Es("guardarCita") => \A c \in Cargas, i \in IdsSueltos, fc \in BOOLEAN :
          LET cita == conEditingId(c, i)
          IN  (~Existe(i) /\ GuardarCita(cita, fc, FALSE)) =>
              /\ AgregaUna
              /\ Asignado(generarProximoId(counterSlot, ahora, fc).id)
              /\ UltimaEs(cita, generarProximoId(counterSlot, ahora, fc).id)
              /\ counterSlot' = generarProximoId(counterSlot, ahora, fc).slot]_vars

\* C6 witness: a record with an unknown id was saved after two others
C6_Witness ==
    /\ ultima = Llamada("guardarCita", "crearConId", FALSE, "undefined")
    /\ Len(Guardadas) >= 3
    /\ emitidos # <<>>
    /\ Guardadas[Len(Guardadas)].id = emitidos[Len(emitidos)].id

\* C7: when the collection write fails, guardarCita raises and the persisted
\* collection is what it was before the call, in the create and in the update
\* branch.
C7_FalloNoGuarda ==
    [][(Es("guardarCita") /\ ultima'.fallaCitas) =>
          /\ ultima'.ret = "throw"
          /\ citasSlot' = citasSlot
          /\ Guardadas' = Guardadas]_vars

\* C7 witness: an update of a stored record raised
C7_Witness ==
    /\ ultima = Llamada("guardarCita", "actualizar", TRUE, "throw")
    /\ Len(Guardadas) >= 1

\* C8: eliminarCita with the id of a stored record (the collection write
\* succeeding) returns true; afterwards no stored record has that id, and the
\* records with another id are kept unchanged and in the same order.
C8_EliminarQuita ==
    [][Es("eliminarCita") => \A id \in IdsEntrada(Guardadas) :
          (Existe(id) /\ EliminarCita(id, FALSE)) =>
              /\ ultima'.ret = "true"
              /\ \A i \in 1..Len(Guardadas') : Guardadas'[i].id # id
              /\ Guardadas' = SelectSeq(Guardadas, LAMBDA c : c.id # id)]_vars

\* C8 witness: a removal returned true and left records behind
C8_Witness ==
    /\ ultima = Llamada("eliminarCita", "encontrada", FALSE, "true")
    /\ Len(Guardadas) >= 2

\* C9: eliminarCita with an id no stored record has returns false and writes
\* nothing: both slots are unchanged.
C9_EliminarAusente ==
    [][Es("eliminarCita") => \A id \in IdsEntrada(Guardadas) \cup {<<>>} :
          (~Existe(id) /\ EliminarCita(id, FALSE)) =>
              /\ ultima'.ret = "false"
              /\ citasSlot' = citasSlot
              /\ counterSlot' = counterSlot]_vars

\* C9 witness: a removal found nothing in a collection that holds records and
\* from which a record was removed before
C9_Witness ==
    /\ ultima = Llamada("eliminarCita", "noEncontrada", FALSE, "false")
    /\ Len(Guardadas) >= 1
    /\ Len(Guardadas) < Len(emitidos)

\* C10: when the collection write fails during eliminarCita for the id of a
\* stored record, the call returns false without raising and the persisted
\* collection still holds the record.
C10_EliminarFalla ==
    [][Es("eliminarCita") => \A id \in IdsEntrada(Guardadas) :
          (Existe(id) /\ EliminarCita(id, TRUE)) =>
              /\ ultima'.ret = "false"
              /\ Guardadas' = Guardadas
              /\ \E i \in 1..Len(Guardadas') : Guardadas'[i].id = id]_vars

\* C10 witness: a removal of a stored record returned false
C10_Witness ==
    /\ ultima = Llamada("eliminarCita", "encontrada", TRUE, "false")
    /\ Len(Guardadas) >= 1

\* ---- failing writes -------------------------------------------------------------------
\* the counter write of the step's generarProximoId call threw
FallaContadorEnPaso ==
    /\ Len(emitidos') = Len(emitidos) + 1
    /\ emitidos'[Len(emitidos')].falla

\* C11 as stated: whenever a storage write fails inside guardarCita or
\* eliminarCita, of the collection or of the counter, the call ends by raising
\* an error.
C11_FalloSiempreLanza ==
    [][((Es("guardarCita") \/ Es("eliminarCita"))
          /\ (ultima'.fallaCitas \/ FallaContadorEnPaso))
       => ultima'.ret \in {"throw", "TypeError"}]_vars

\* C11 amended: only the failing collection write of guardarCita escapes as an
\* error; eliminarCita whose collection write fails returns false without
\* raising, and guardarCita whose counter write fails (its collection write
\* succeeding) returns normally.
C11_FalloSegunOperacion ==
    [][/\ (Es("guardarCita") /\ ultima'.fallaCitas) => ultima'.ret = "throw"
       /\ (Es("eliminarCita") /\ ultima'.fallaCitas) => ultima'.ret = "false"
       /\ (Es("guardarCita") /\ FallaContadorEnPaso /\ ~ultima'.fallaCitas)
              => ultima'.ret = "undefined"]_vars

\* C11 witness: the collection write of eliminarCita failed and the call
\* returned, after a guardarCita whose counter write had failed
C11_Witness ==
    /\ ultima.op = "eliminarCita"
    /\ ultima.fallaCitas
    /\ ultima.ret # "throw"
    /\ \E i \in 1..Len(emitidos) : emitidos[i].falla

\* C12: guardarCita with a record without id whose counter write fails: the
\* allocator returns "TEMP-" followed by the decimal digits of the clock
\* instant and the persisted counter is unchanged; when the collection write
\* succeeds the record is appended and persisted under that id and the call
\* returns normally.
C12_FalloContadorIdTemporal ==
    [][Es("guardarCita") => \A cita \in Cargas, fl \in BOOLEAN :
          GuardarCita(cita, TRUE, fl) =>
              LET id == emitidos'[Len(emitidos')].id
              IN  /\ FallaContadorEnPaso
                  /\ SubSeq(id, 1, 5) = <<"T", "E", "M", "P", "-">>
                  /\ sufijo(id) = String(ahora)
                  /\ Numero(sufijo(id)) = ahora
                  /\ counterSlot' = counterSlot
                  /\ ~fl => /\ AgregaUna
                            /\ UltimaEs(cita, id)
                            /\ ultima'.ret = "undefined"]_vars

\* C12 witness: a counter was persisted, then a record was saved under the
\* fallback id after another record
C12_Witness ==
    /\ ultima = Llamada("guardarCita", "crear", FALSE, "undefined")
    /\ counterSlot.kind = "valid"
    /\ Len(Guardadas) >= 2
    /\ emitidos # <<>>
    /\ emitidos[Len(emitidos)].falla
    /\ Guardadas[Len(Guardadas)].id = emitidos[Len(emitidos)].id
    /\ SubSeq(Guardadas[Len(Guardadas)].id, 1, 4) = <<"T", "E", "M", "P">>

\* ---- the collection slot holding anything ------------------------------------------------
\* C13: when the collection slot holds text that cannot be parsed, obtenerCitas
\* returns the empty list and removes the slot, so that a call right after it
\* (no write in between) returns the empty list again and leaves the slot
\* absent.
C13_CorruptoSeVacia ==
    [][(Es("obtenerCitas") /\ citasSlot.kind = "garbage") =>
          /\ ultima'.ret = "array"
          /\ obtenerCitas(citasSlot).citas = <<>>
          /\ citasSlot' = SinCitas
          /\ obtenerCitas(citasSlot') =
                [tipo |-> "array", citas |-> <<>>, slot |-> citasSlot']]_vars

\* C13 witness: obtenerCitas has found unparseable text and is returning
C13_Witness ==
    /\ ultima = Llamada("obtenerCitas", "corrupta", FALSE, "array")
    /\ citasSlot = SinCitas

\* C14: whatever the collection slot holds (nothing, unparseable text, JSON of
\* null, of a number, of an object, of an array), what obtenerCitas returns is
\* a list.
C14_SiempreLista ==
    ultima.op = "obtenerCitas" => ultima.ret = "array"

\* C15: whatever the two slots hold, guardarCita and eliminarCita end without
\* raising, except for guardarCita raising its persistence Error when its
\* collection write fails.
C15_CorrupcionNoEscapa ==
    ultima.op \in {"guardarCita", "eliminarCita"} =>
        /\ ultima.ret # "TypeError"
        /\ ultima.ret = "throw" => (ultima.op = "guardarCita" /\ ultima.fallaCitas)

\* ---- a new year ---------------------------------------------------------------------------
\* C16: when the persisted counter holds year Y, with any sequence, and the
\* current year is Y+1, a generarProximoId call (its counter write succeeding)
\* returns the id of year Y+1 with suffix 00001 and persists {Y+1, 1}.
C16_CambioDeAnio ==
    [][(/\ Es("guardarCita")
        /\ counterSlot.kind = "valid"
        /\ getFullYear(ahora) = counterSlot.anio + 1
        /\ Len(emitidos') = Len(emitidos) + 1
        /\ ~emitidos'[Len(emitidos')].falla) =>
          /\ emitidos'[Len(emitidos')].id =
                String(counterSlot.anio + 1) \o <<"-", "0", "0", "0", "0", "1">>
          /\ counterSlot' = ContadorValido(counterSlot.anio + 1, 1)]_vars

\* C16 witness: the counter stood at a sequence above 1 in the year before, and
\* the call that is returning has persisted sequence 1 of this year
C16_Witness ==
    /\ ultima.op = "guardarCita"
    /\ emitidos # <<>>
    /\ ~emitidos[Len(emitidos)].falla
    /\ emitidos[Len(emitidos)].anio = getFullYear(ahora)
    /\ counterSlot = ContadorValido(getFullYear(ahora), 1)
    /\ \E v \in vistos : v.anio = counterSlot.anio - 1 /\ v.seq >= 2

\* ---- the booking form ---------------------------------------------------------------------
\* some stored record has the date and time of data and an id other than the
\* one being edited
HayOtraIgual(data) ==
    \E i \in 1..Len(Guardadas) :
        /\ "fecha_reserva" \in DOMAIN Guardadas[i]
        /\ "hora_reserva" \in DOMAIN Guardadas[i]
        /\ Guardadas[i].fecha_reserva = data.fecha_reserva
        /\ Guardadas[i].hora_reserva = data.hora_reserva
        /\ Guardadas[i].id # form.editingId

\* the step is a submission that one of the validations stopped
NoValida == ultima'.rama \in {"campos", "dni", "pasada", "nacimiento"}

\* C17: a submission that passes the validations is flagged as a conflict
\* exactly when the collection holds a record with the same date and time and
\* an id other than the editing id: then nothing is saved, and otherwise (in
\* particular when only the record being edited has that date and time) the
\* handler goes on to guardarCita.
C17_ConflictoExacto ==
    [][((Es("handleSubmit") \/ Es("guardarCita")) /\ ~NoValida) =>
          \A data \in Datos :
              HandleSubmit(data, FallaContadorEnPaso, ultima'.fallaCitas) =>
                  /\ HayOtraIgual(data) <=> ultima'.rama = "conflicto"
                  /\ HayOtraIgual(data) =>
                        /\ ultima'.op = "handleSubmit"
                        /\ citasSlot' = citasSlot /\ counterSlot' = counterSlot
                        /\ form'.error = "block" /\ form'.modal = "flex"
                  /\ ~HayOtraIgual(data) => ultima'.op = "guardarCita"]_vars

\* C17 witness: in edit mode, the record being edited still stored, a
\* submission was flagged as a conflict with another record
C17_Witness ==
    /\ ultima = Llamada("handleSubmit", "conflicto", FALSE, "undefined")
    /\ Len(Guardadas) >= 2
    /\ \E i \in 1..Len(Guardadas) : Guardadas[i].id = form.editingId

\* ---- functions applied on their own ---------------------------------------------------
\* the function has been called with the arguments of entrada
Hecha(fn) == entrada.fn = fn /\ salida.hecho

\* C18: after guardarCita, whether it returned or raised, the object the
\* caller passed has the fields and the values it had before; one passed
\* without id still has no id.
C18_ArgumentoIntacto ==
    Hecha("guardarCita") =>
        /\ DOMAIN salida.val.argumento = DOMAIN entrada.cita
        /\ \A f \in DOMAIN entrada.cita : salida.val.argumento[f] = entrada.cita[f]

\* C18 witness: a call with an object without id has appended a record with a
\* new id to a collection that held one
C18_Witness ==
    /\ Hecha("guardarCita")
    /\ "id" \notin DOMAIN entrada.cita
    /\ salida.val.ret = "undefined"
    /\ salida.val.citasSlot.kind = "array"
    /\ Len(salida.val.citasSlot.val) = 2
    /\ salida.val.citasSlot.val[2].id = salida.val.id

\* the point in time of a record, NaN when its date and time are no date
punto(c) == getTime(campo(c, "fecha_reserva"), campo(c, "hora_reserva"))

\* the records of list l, each as many times as it is there
Contenido(l) == [c \in { l[i] : i \in 1..Len(l) } |-> Cardinality({ i \in 1..Len(l) : l[i] = c })]

\* C19: ordenarCitas returns the records of its argument with those that have
\* a parseable date and time in ascending order of that point, and each record
\* without one after every record with one, however many of them there are.
C19_Ordenadas ==
    Hecha("ordenarCitas") =>
        /\ Len(salida.val) = Len(entrada.citas)
        /\ Contenido(salida.val) = Contenido(entrada.citas)
        /\ \A i \in 1..Len(salida.val) : \A j \in (i + 1)..Len(salida.val) :
              /\ punto(salida.val[i]) = NaN => punto(salida.val[j]) = NaN
              /\ punto(salida.val[j]) # NaN => punto(salida.val[i]) <= punto(salida.val[j])

\* C19 witness: a list that began with two records without a date and ended
\* with a later and then an earlier record comes back changed
C19_Witness ==
    /\ Hecha("ordenarCitas")
    /\ Len(entrada.citas) = MaxLista
    /\ Cardinality({ i \in 1..Len(entrada.citas) : punto(entrada.citas[i]) = NaN }) >= 2
    /\ punto(entrada.citas[1]) = NaN
    /\ punto(salida.val[1]) # NaN
    /\ salida.val # entrada.citas

\* C20: separarCitasPorEstado puts a record among the future ones exactly when
\* its date and time are parseable and its point is not before the start of
\* the current minute, so a record of the current minute is future at every
\* second of it; a record without a parseable date and time is past.
C20_FuturaDesdeElMinuto ==
    Hecha("separarCitasPorEstado") =>
        LET minuto == entrada.t - (entrada.t % 60000)
            esFutura(c) == punto(c) # NaN /\ punto(c) >= minuto
        IN  /\ salida.val.futuras = SelectSeq(entrada.citas, esFutura)
            /\ salida.val.pasadas = SelectSeq(entrada.citas, LAMBDA c : ~esFutura(c))

\* C20 witness: in the last millisecond of a minute a record of that minute is
\* future and a record without a date is past
C20_Witness ==
    /\ Hecha("separarCitasPorEstado")
    /\ getSeconds(entrada.t) = 59 /\ getMilliseconds(entrada.t) = 999
    /\ \E i \in 1..Len(salida.val.futuras) :
          punto(salida.val.futuras[i]) = entrada.t - 59999
    /\ \E i \in 1..Len(salida.val.pasadas) : punto(salida.val.pasadas[i]) = NaN

\* the characters of markup
CaracteresHTML == { "&", "<", ">", "'", "\"" }

\* C21: every value of a stored record that createCitaCardHTML puts in the
\* card has gone through escapeHTML: none of the characters & < > ' " of a
\* stored value is in the markup as it was stored.
C21_TodoSaneado ==
    Hecha("createCitaCardHTML") =>
        \A i \in 1..Len(salida.val) : salida.val[i] \notin CaracteresHTML

\* C22: with the counter slot absent, unparseable, or parseable but not
\* {anio: number, seq: number}, and the write succeeding, generarProximoId
\* returns <current year>-00001 and leaves the counter {current year, 1}.
C22_ContadorPorDefecto ==
    (Hecha("generarProximoId") /\ entrada.counterSlot.kind # "valid" /\ ~entrada.falla) =>
        /\ salida.val.id = String(getFullYear(entrada.t)) \o <<"-", "0", "0", "0", "0", "1">>
        /\ salida.val.slot = [kind |-> "valid", anio |-> getFullYear(entrada.t), seq |-> 1]

\* C22 witness: the call found an object whose anio or seq is no number, of
\* this year and with a sequence under way, and began again at 1
C22_Witness ==
    /\ Hecha("generarProximoId")
    /\ entrada.counterSlot.kind = "shape"
    /\ entrada.counterSlot.seq > 0
    /\ entrada.counterSlot.anio = getFullYear(entrada.t)
    /\ ~entrada.falla
    /\ salida.val.slot.seq = 1

\* ---- the booking page and the store ----------------------------------------------------
\* C23: in every state reached from the empty store by submissions of the
\* form, in create and in edit mode, and by deletions, no two records of the
\* persisted collection have the same fecha_reserva and hora_reserva.
C23_SinParesRepetidos ==
    \A i, j \in 1..Len(Guardadas) :
        (i # j) =>
            \/ campo(Guardadas[i], "fecha_reserva") # campo(Guardadas[j], "fecha_reserva")
            \/ campo(Guardadas[i], "hora_reserva") # campo(Guardadas[j], "hora_reserva")

\* C24: an id that generarProximoId handed out with its counter persisted is
\* not handed out again in the same year: a call that is given an id with the
\* counter write succeeding is given one that no earlier call of the year was
\* given so, whether the record of that call was removed since by eliminarCita
\* or never written because the write of the collection failed.
C24_SecuenciaNoReusada ==
    [][(Len(emitidos') = Len(emitidos) + 1 /\ ~emitidos'[Len(emitidos')].falla) =>
          \A i \in 1..Len(emitidos) :
              (~emitidos[i].falla /\ emitidos[i].anio = emitidos'[Len(emitidos')].anio)
              => emitidos[i].id # emitidos'[Len(emitidos')].id]_vars

\* C24 witness: the third id of a year has just been stored; the records of
\* the first two are not in the collection, removed or never written
C24_Witness ==
    /\ ultima.op = "guardarCita" /\ ultima.ret = "undefined"
    /\ Len(emitidos) = 3
    /\ \A i \in 1..3 : ~emitidos[i].falla /\ emitidos[i].anio = emitidos[1].anio
    /\ Len(Guardadas) = 1
    /\ Guardadas[1].id = emitidos[3].id
    /\ Guardadas[1].id \notin { emitidos[1].id, emitidos[2].id }

\* C25: after a guardarCita that returned and whose id matched a stored record
\* once turned into a string, that record has the string id it had before, so
\* eliminarCita with the id would find it and guardarCita with the id would
\* update it again.
C25_IdInmutable ==
    LET rama == ramaGuardarCita(entrada.cita, obtenerCitas(entrada.citasSlot))
        despues == salida.val.citasSlot.val
    IN  (Hecha("guardarCita") /\ rama.nombre = "actualizar" /\ salida.val.ret = "undefined") =>
            /\ despues[rama.index].id = entrada.citasSlot.val[rama.index].id
            /\ Len(filtrar(despues, aString(entrada.cita.id))) < Len(despues)
            /\ findIndex(despues, aString(entrada.cita.id)) = rama.index

\* C26: closing the confirmation of a save made in edit mode goes to
\* check.html; closing that of a save made in create mode stays on the page.
C26_RedirigeTrasEditar ==
    [][CerrarConfirmacion =>
          /\ form.guardada = "editar" => form'.pagina = "check"
          /\ form.guardada = "crear" => form'.pagina = "index"]_vars

\* the form is in edit mode: form.dataset.editingId is set
EnEdicion == form.editingId # Indefinido /\ form.editingId # <<>>

C29_AceptadaEsFutura ==
    (Hecha("validarFechaHoraCita") /\ salida.val) =>
        LET cita == [fecha_reserva |-> entrada.fecha, hora_reserva |-> entrada.hora]
            r == separarCitasPorEstado(<<cita>>, entrada.t)
        IN  r.futuras = <<cita>> /\ r.pasadas = <<>>

\* C29 witness: the time accepted is the clock's own instant
C29_Witness ==
    /\ Hecha("validarFechaHoraCita")
    /\ salida.val
    /\ getTime(entrada.fecha, entrada.hora) = entrada.t

RECURSIVE Extraer(_, _)
\* the elements of l at the positions of I, in the order of l
Extraer(l, I) ==
    IF l = <<>> THEN <<>>
    ELSE Extraer(SubSeq(l, 1, Len(l) - 1), I) \o (IF Len(l) \in I THEN <<l[Len(l)]>> ELSE <<>>)

\* the cards of the records of l
Tarjetas(l) == [i \in 1..Len(l) |-> createCitaCardHTML(l[i])]

\* C30: ordenarCitas returns a permutation of its argument and leaves the
\* argument as it was; separarCitasPorEstado puts each record of its argument
\* in exactly one of futuras and pasadas, each in the argument's order; and
\* renderCitas with an empty filter shows, for a stored list, the card of every
\* stored record exactly once.
C30_TodasUnaVez ==
    /\ Hecha("ordenarCitas") =>
          /\ Contenido(salida.val) = Contenido(entrada.citas)
          /\ salida.citas = entrada.citas
    /\ Hecha("separarCitasPorEstado") =>
          \E I \in SUBSET (1..Len(entrada.citas)) :
              /\ salida.val.futuras = Extraer(entrada.citas, I)
              /\ salida.val.pasadas = Extraer(entrada.citas, (1..Len(entrada.citas)) \ I)
    /\ (Hecha("renderCitas") /\ entrada.citasSlot.kind = "array"
                             /\ trim(entrada.filtro) = <<>>) =>
          /\ Len(salida.val.futuras) + Len(salida.val.pasadas) = Len(entrada.citasSlot.val)
          /\ Contenido(salida.val.futuras \o salida.val.pasadas)
                = Contenido(Tarjetas(entrada.citasSlot.val))

\* C30 witness: the page drawn without filter shows a future and a past
\* record, both with a date, that are stored with the future one first
C30_Witness ==
    /\ Hecha("renderCitas")
    /\ entrada.filtro = <<>>
    /\ Len(entrada.citasSlot.val) = MaxLista - 1
    /\ Len(salida.val.futuras) = 1 /\ Len(salida.val.pasadas) = 1
    /\ salida.val.futuras[1] = createCitaCardHTML(entrada.citasSlot.val[1])
    /\ punto(entrada.citasSlot.val[Len(entrada.citasSlot.val)]) # NaN

\* the stored record is past at the instant the page is drawn
EsPasada(c) == punto(c) = NaN \/ punto(c) < entrada.t - (entrada.t % 60000)

\* C31: in the summary of the past records that renderCitas shows, 'total' is
\* the number of past records and 'visible' the number of past records that
\* match the filter, which is the number of cards of the section.
C31_ResumenCuenta ==
    (Hecha("renderCitas") /\ salida.val.resumen.mostrado) =>
        /\ salida.val.resumen.total
              = Cardinality({ i \in 1..Len(entrada.citasSlot.val) :
                                EsPasada(entrada.citasSlot.val[i]) })
        /\ salida.val.resumen.visible = Len(salida.val.pasadas)

\* ---- the delete-confirmation modal -----------------------------------------------------
\* C32: whatever the sequence of openings (also one upon another), closings,
\* cancellings, Escape keys and confirmations of the delete modal: whenever
\* the modal is closed, idParaBorrar is null, cleanupFunctions is empty and no
\* keydown listener of an opening is still registered; and eliminarCita is
\* called only with the modal open, with the id of the delete button clicked
\* last.
C32_ModalCerradoLimpio ==
    /\ [](form.display # "flex" =>
             /\ form.idParaBorrar = Null
             /\ form.cleanupFunctions = <<>>
             /\ form.listeners = {})
    /\ [][Es("eliminarCita") =>
             /\ form.display = "flex"
             /\ form.clicado # Null
             /\ EliminarCita(form.clicado, ultima'.fallaCitas)]_vars

\* C32 witness: the modal was opened twice with no closing between and then
\* confirmed; the record of the last click has been removed, the modal is
\* closed and the four cleanup functions have run
C32_Witness ==
    /\ ultima = Llamada("eliminarCita", "encontrada", FALSE, "true")
    /\ form.display = "none"
    /\ form.quitados = 4
    /\ form.clicado # Null
    /\ ~Existe(form.clicado)
    /\ Len(Guardadas) = 2
    /\ Guardadas[1].id = formatoId([anio |-> AnioBase, seq |-> 1])

====
